---- MODULE Spec2Model ----
(***************************************************************************)
(* Model of simpleline's default event loop (MainLoop, TicketMachine) and  *)
(* of its input thread manager (InputThreadManager, InputRequest).         *)
(*                                                                         *)
(* The dispatch thread is modelled by its call stack: one frame per active *)
(* Python call (run, _mainloop, process_signals, _process_signal, a        *)
(* handler callback, execute_new_loop, close_loop).  Every other thread    *)
(* that calls enqueue_signal is a worker with its own program counter.     *)
(***************************************************************************)
EXTENDS Integers, Sequences, FiniteSets, TLC

\* ---------------------------------------------------------------- bounds
MaxSignals == 3      \* signal objects created during one behaviour
MaxQueues == 3       \* EventQueue objects created (the initial one included)
MaxHandlers == 1     \* register_signal_handler calls
MaxTickets == 2      \* take_ticket calls
MaxCalls == 1        \* calls into the loop a callback makes before it returns
MaxRegistered == 3   \* register_signal_handler calls, SpecDispatch
MaxTaken == 3        \* take_ticket calls, SpecTicket

Kinds == {"A", "B"}
Sources == {"s1", "s2"}
Registrable == "s1"  \* the source the application registers; s2 never is
\* the callbacks the application registers, in this order, and their data
Callbacks == <<"f", "g", "h", "k">>
DataOf == <<"d1", "d2", "d3", "d4">>
Workers == {"w1"}
Requests == {"R1", "R2", "R3"}
SourceOf == [r \in Requests |-> IF r = "R1" THEN "s1" ELSE IF r = "R2" THEN "s2" ELSE "s3"]
InputData == {"x", "y"}
QuitCallback == "quit"   \* the callback the application sets for the end of run()

None == "None"
ExceptionSignal == "ExceptionSignal"
\* ExceptionSignal.exception_info, as sys.exc_info() gives it
ExcInfo == <<"ValueError", "the ValueError instance", "traceback">>
\* no exception has left the dispatch thread
NoException == [exception |-> None, cause |-> None]
NoQueue == 0
NoTicket == 0 - 1

VARIABLES
    handlers,        \* MainLoop._handlers: kind -> sequence of EventHandler
    queues,          \* the EventQueue objects created so far, by identity
    active_queue,    \* MainLoop._active_queue (identity of an EventQueue)
    event_queues,    \* MainLoop._event_queues (sequence of identities)
    lines,           \* TicketMachine._lines
    counter,         \* TicketMachine._counter
    stack,           \* call stack of the dispatch thread
    crashed,         \* exception that left the dispatch thread, if any
    quit_callback,   \* AbstractEventLoop._quit_callback
    quit_calls,      \* history: number of calls of the quit callback
    workers,         \* threads calling enqueue_signal
    nextSig,         \* identity of the next signal object
    regLog,          \* history: register_signal_handler calls in call order
    dispatched,      \* history: identities of the dequeued signals, in order
    removed,         \* history: queues popped from the stack by close_loop
    input_stack,     \* InputThreadManager._input_stack (request identities)
    registered_loop, \* InputThreadManager._registered_loop
    processing_input,\* InputThreadManager._processing_input
    threads,         \* InputRequest.thread of every request, and its progress
    asked,           \* history: requests passed to start_input_thread, in order
    last             \* history: what the last step did

inputVars == <<input_stack, registered_loop, processing_input, threads, asked>>
quitVars == <<quit_callback, quit_calls>>

vars == <<handlers, queues, active_queue, event_queues, lines, counter, stack,
          crashed, quitVars, workers, nextSig, regLog, dispatched, removed, inputVars, last>>

\* ------------------------------------------------------------ EventQueue
NewQueue == [items |-> <<>>, sources |-> {}]

\* EventQueue.enqueue
QEnqueue(qs, q, sig) == [qs EXCEPT ![q].items = Append(@, sig)]

\* EventQueue.add_source
QAddSource(qs, q, src) == [qs EXCEPT ![q].sources = @ \cup {src}]

\* EventQueue.get (the caller has checked that the queue holds a signal)
QGet(qs, q) == [qs EXCEPT ![q].items = Tail(@)]

\* EventQueue.empty
QEmpty(qs, q) == qs[q].items = <<>>

\* ---------------------------------------------------------- TicketMachine
\* take_ticket: the new _lines
TakeTicket(ls, cnt, line) ==
    IF line \in DOMAIN ls
    THEN [ls EXCEPT ![line] = [id \in DOMAIN @ \cup {cnt} |->
                                  IF id = cnt THEN FALSE ELSE @[id]]]
    ELSE [l \in DOMAIN ls \cup {line} |->
             IF l = line THEN [id \in {cnt} |-> FALSE] ELSE ls[l]]

\* mark_line_to_go that marks the tickets of every line
MarkEveryLineToGo(ls, line) ==
    [l \in DOMAIN ls |-> [id \in DOMAIN ls[l] |-> TRUE]]

\* mark_line_to_go that releases only the ticket taken last in the line
MarkNewestToGo(ls, line) ==
    IF line \in DOMAIN ls
    THEN [ls EXCEPT ![line] = [id \in DOMAIN @ |->
                                  @[id] \/ \A other \in DOMAIN @ : other <= id]]
    ELSE ls

\* mark_line_to_go: the new _lines
MarkLineToGo(ls, line) ==
    IF line \in DOMAIN ls
    THEN [ls EXCEPT ![line] = [id \in DOMAIN @ |-> TRUE]]
    ELSE ls

\* check_ticket without the `if`: any ticket in the line passes
CheckTicketAlwaysTrue(ls, line, id) == "True"

\* check_ticket: the value returned (True, or None when the `if` is not taken)
CheckTicketResult(ls, line, id) ==
    IF ls[line][id] THEN "True" ELSE None

\* check_ticket: the new _lines
CheckTicketLines(ls, line, id) ==
    IF ls[line][id]
    THEN [ls EXCEPT ![line] = [i \in DOMAIN @ \ {id} |-> @[i]]]
    ELSE ls

\* Python truth value of what check_ticket returned
Truthy(v) == v = "True"

\* ------------------------------------------------------------- MainLoop
\* the loop of enqueue_signal without `reversed`: outermost level first
ScanQueuesOutermostFirst(eqs, qs, src, i) ==
    LET R == {j \in 1..i : src \in qs[eqs[j]].sources}
    IN  IF R = {} THEN NoQueue
        ELSE eqs[CHOOSE j \in R : \A k \in R : j <= k]

\* enqueue_signal, the loop under the lock: the queue that took the signal,
\* scanning _event_queues from index i down to 1; NoQueue when none did
RECURSIVE ScanQueues(_, _, _, _)
ScanQueues(eqs, qs, src, i) ==
    IF i = 0 THEN NoQueue
    ELSE IF src \in qs[eqs[i]].sources THEN eqs[i]
    ELSE ScanQueues(eqs, qs, src, i - 1)

\* enqueue_signal run without interruption: the queue the signal is put in
EnqueueTarget(eqs, qs, act, src) ==
    LET q == ScanQueues(eqs, qs, src, Len(eqs))
    IN IF q # NoQueue THEN q ELSE act

\* register_signal_handler that inserts the handler in front of the list
RegisterHandlerInFront(hs, kind, cb, data) ==
    IF kind \in DOMAIN hs
    THEN [hs EXCEPT ![kind] = <<[callback |-> cb, data |-> data]>> \o @]
    ELSE [k \in DOMAIN hs \cup {kind} |->
             IF k = kind THEN <<[callback |-> cb, data |-> data]>> ELSE hs[k]]

\* register_signal_handler: the new _handlers
RegisterHandler(hs, kind, cb, data) ==
    IF kind \in DOMAIN hs
    THEN [hs EXCEPT ![kind] = Append(@, [callback |-> cb, data |-> data])]
    ELSE [k \in DOMAIN hs \cup {kind} |->
             IF k = kind THEN <<[callback |-> cb, data |-> data]>> ELSE hs[k]]

Range(seq) == {seq[i] : i \in 1..Len(seq)}

\* the lines of main_loop.py that are inside a `with self._lock:` block
WithLock == {94, 95} \cup (109..114) \cup (131..134)

\* an access to self._active_queue made by the statement at a line of
\* main_loop.py, and whether the thread holds self._lock there
Access(op, line) == [op |-> op, line |-> line, locked |-> line \in WithLock]

\* ----------------------------------------------------------- call stack
Top == stack[Len(stack)]
Below(s) == SubSeq(s, 1, Len(s) - 1)
SetTop(s, fr) == [s EXCEPT ![Len(s)] = fr]

MainloopFrame == [f |-> "_mainloop"]
PSFrame(ra, id, start) ==
    [f |-> "process_signals", return_after |-> ra, unique_id |-> id,
     pc |-> "loop", start |-> start]

\* the caller resumes after the call on top of s returned normally
Return(s) ==
    LET r == Below(s)
        c == r[Len(r)]
    IN  IF c.f = "close_loop" THEN SetTop(r, [c EXCEPT !.pc = "pop"])
        ELSE IF c.f = "process_signals" THEN SetTop(r, [c EXCEPT !.pc = "check"])
        ELSE r

\* ExitMainLoop caught by the _mainloop of run() only: every level ends
UnwindToOutermost(s, by) ==
    <<s[1], [s[2] EXCEPT !.pc = "quit"]>>

\* ExitMainLoop raised in the frame on top of s: every frame up to the nearest
\* _mainloop is left; _mainloop catches it and returns to its caller
RECURSIVE Unwind(_, _)
Unwind(s, by) ==
    IF s = <<>> THEN <<>>
    ELSE IF s[Len(s)].f = "_mainloop"
    THEN LET r == Below(s)
             c == r[Len(r)]
         IN  IF c.f = "run" THEN SetTop(r, [c EXCEPT !.pc = "quit"])
             ELSE SetTop(r, [c EXCEPT !.pc = "return", !.closedBy = by])
    ELSE Unwind(Below(s), by)

\* number of frames of function f on s
RECURSIVE CountFrames(_, _)
CountFrames(s, f) ==
    IF s = <<>> THEN 0
    ELSE CountFrames(Below(s), f) + (IF s[Len(s)].f = f THEN 1 ELSE 0)

Signal(id, kind, src) ==
    IF kind = ExceptionSignal
    THEN [id |-> id, kind |-> kind, source |-> src, exception_info |-> ExcInfo]
    ELSE [id |-> id, kind |-> kind, source |-> src]

\* ------------------------------------------------------------------ Init
Init ==
    /\ handlers = <<>>
    /\ queues = <<NewQueue>>
    /\ active_queue = 1
    /\ event_queues = <<1>>
    /\ lines = <<>>
    /\ counter = 0
    /\ stack = <<[f |-> "main", pc |-> "setup"]>>
    /\ crashed = NoException
    /\ quit_callback = None
    /\ quit_calls = 0
    /\ workers = [w \in Workers |-> [pc |-> "idle"]]
    /\ nextSig = 1
    /\ regLog = <<>>
    /\ dispatched = <<>>
    /\ removed = {}
    /\ input_stack = <<>>
    /\ registered_loop = None
    /\ processing_input = FALSE
    /\ threads = [r \in Requests |-> [pc |-> "none"]]
    /\ asked = <<>>
    /\ last = [type |-> "init"]

\* ------------------------------------------ user code on the dispatch thread
\* the application's own code: the main program before run(), or a callback
InMain == stack # <<>> /\ Top.f = "main" /\ Top.pc = "setup"
InHandler == stack # <<>> /\ Top.f = "handler" /\ Top.callback \in Range(Callbacks)
CanCall == InHandler /\ Top.calls < MaxCalls
InUserCode == InMain \/ CanCall

\* the stack once the callback on top has made one more call into the loop
Called(s) == SetTop(s, [s[Len(s)] EXCEPT !.calls = @ + 1])
AfterCall(s) == IF s[Len(s)].f = "handler" THEN Called(s) ELSE s

\* MainLoop.register_signal_handler
RegisterSignalHandler(kind, cb, data) ==
    /\ InUserCode
    /\ handlers' = RegisterHandler(handlers, kind, cb, data)
    /\ regLog' = Append(regLog, [kind |-> kind, callback |-> cb, data |-> data])
    /\ stack' = AfterCall(stack)
    /\ last' = [type |-> "register_signal_handler"]
    /\ UNCHANGED <<inputVars, queues, active_queue, event_queues, lines, counter,
                   crashed, quitVars, workers, nextSig, dispatched, removed>>

\* MainLoop.register_signal_source
RegisterSignalSource(src) ==
    /\ InUserCode
    /\ queues' = QAddSource(queues, active_queue, src)
    /\ stack' = AfterCall(stack)
    /\ last' = [type |-> "register_signal_source"]
    /\ UNCHANGED <<inputVars, handlers, active_queue, event_queues, lines, counter,
                   crashed, quitVars, workers, nextSig, regLog, dispatched, removed>>

\* AbstractEventLoop.set_quit_callback called by the main program
SetQuitCallback(cb) ==
    /\ InMain
    /\ quit_callback = None
    /\ quit_callback' = cb
    /\ last' = [type |-> "set_quit_callback"]
    /\ UNCHANGED <<inputVars, handlers, queues, active_queue, event_queues, lines,
                   counter, stack, crashed, quit_calls, workers, nextSig, regLog,
                   dispatched, removed>>

\* MainLoop.enqueue_signal called by user code on the dispatch thread: no
\* other thread changes _event_queues or _active_queue in between
UserEnqueueSignal(kind, src) ==
    /\ CanCall
    /\ nextSig <= MaxSignals
    /\ LET sig == Signal(nextSig, kind, src)
           q == EnqueueTarget(event_queues, queues, active_queue, src)
       IN  /\ queues' = QEnqueue(queues, q, sig)
           /\ last' = [type |-> "enqueue_signal", sig |-> sig, target |-> q]
    /\ nextSig' = nextSig + 1
    /\ stack' = AfterCall(stack)
    /\ UNCHANGED <<inputVars, handlers, active_queue, event_queues, lines, counter,
                   crashed, quitVars, workers, regLog, dispatched, removed>>

\* MainLoop.run, up to the call of _mainloop
Run ==
    /\ InMain
    /\ stack' = <<[f |-> "main", pc |-> "running"],
                  [f |-> "run", pc |-> "mainloop"], MainloopFrame>>
    /\ last' = [type |-> "run"]
    /\ UNCHANGED <<inputVars, handlers, queues, active_queue, event_queues, lines, counter,
                   crashed, quitVars, workers, nextSig, regLog, dispatched, removed>>

\* run without `self._quit_callback()`
QuitCallsNever(cb, n) == n

\* MainLoop.run, `if self._quit_callback: self._quit_callback()`: the number
\* of calls of the quit callback made so far
QuitCalls(cb, n) == IF cb # None THEN n + 1 ELSE n

\* MainLoop.run, after _mainloop returned: the quit callback is called and
\* returns, then run returns
RunQuit ==
    /\ stack # <<>> /\ Top.f = "run" /\ Top.pc = "quit"
    /\ quit_calls' = QuitCalls(quit_callback, quit_calls)
    /\ stack' = <<[f |-> "main", pc |-> "done"]>>
    /\ last' = [type |-> "run_returned", levels |-> CountFrames(stack, "_mainloop")]
    /\ UNCHANGED <<inputVars, handlers, queues, active_queue, event_queues, lines, counter,
                   crashed, quit_callback, workers, nextSig, regLog, dispatched, removed>>

\* MainLoop._mainloop: one `self.process_signals()` call of the while loop
MainloopIter ==
    /\ stack # <<>> /\ Top.f = "_mainloop"
    /\ stack' = Append(stack, PSFrame(None, NoTicket, 0))
    /\ last' = [type |-> "process_signals_called", return_after |-> None]
    /\ UNCHANGED <<inputVars, handlers, queues, active_queue, event_queues, lines, counter,
                   crashed, quitVars, workers, nextSig, regLog, dispatched, removed>>

\* MainLoop.process_signals: the while condition is false, return
PSReturnEmpty ==
    /\ stack # <<>> /\ Top.f = "process_signals" /\ Top.pc = "loop"
    /\ QEmpty(queues, active_queue) /\ Top.return_after = None
    /\ stack' = Return(stack)
    /\ last' = [type |-> "process_signals_returned", return_after |-> None,
                start |-> Top.start, depth |-> Len(stack)]
    /\ UNCHANGED <<inputVars, handlers, queues, active_queue, event_queues, lines, counter,
                   crashed, quitVars, workers, nextSig, regLog, dispatched, removed>>

\* process_signals without the call of _mark_signal_processed
MarkNothingProcessed(ls, signal) == ls

\* MainLoop._mark_signal_processed: the new _lines
MarkSignalProcessed(ls, signal) == MarkLineToGo(ls, signal.kind)

\* MainLoop.process_signals: get a signal (get() blocks on an empty queue),
\* _mark_signal_processed, and the call of _process_signal
PSDequeue ==
    /\ stack # <<>> /\ Top.f = "process_signals" /\ Top.pc = "loop"
    /\ ~QEmpty(queues, active_queue)
    /\ LET sig == Head(queues[active_queue].items)
       IN  /\ queues' = QGet(queues, active_queue)
           /\ lines' = MarkSignalProcessed(lines, sig)
           /\ stack' = Append(SetTop(stack, [Top EXCEPT !.pc = "check"]),
                              [f |-> "_process_signal", signal |-> sig, i |-> 1])
           /\ dispatched' = Append(dispatched, sig)
           /\ last' = [type |-> "dequeue", sig |-> sig, queue |-> active_queue]
    /\ UNCHANGED <<inputVars, handlers, active_queue, event_queues, counter,
                   crashed, quitVars, workers, nextSig, regLog, removed>>

\* MainLoop.process_signals: _check_if_signal_processed after _process_signal
PSCheck ==
    /\ stack # <<>> /\ Top.f = "process_signals" /\ Top.pc = "check"
    /\ IF Top.return_after = None
       THEN /\ stack' = SetTop(stack, [Top EXCEPT !.pc = "loop"])
            /\ last' = [type |-> "checked", result |-> "False"]
            /\ UNCHANGED lines
       ELSE LET r == CheckTicketResult(lines, Top.return_after, Top.unique_id)
            IN  /\ lines' = CheckTicketLines(lines, Top.return_after, Top.unique_id)
                /\ IF Truthy(r)
                   THEN /\ stack' = Return(stack)
                        /\ last' = [type |-> "process_signals_returned",
                                    return_after |-> Top.return_after,
                                    start |-> Top.start, depth |-> Len(stack)]
                   ELSE /\ stack' = SetTop(stack, [Top EXCEPT !.pc = "loop"])
                        /\ last' = [type |-> "checked", result |-> r]
    /\ UNCHANGED <<inputVars, handlers, queues, active_queue, event_queues, counter,
                   crashed, quitVars, workers, nextSig, regLog, dispatched, removed>>

\* the handlers _process_signal iterates over
HandlersOf(hs, kind) == IF kind \in DOMAIN hs THEN hs[kind] ELSE <<>>

\* the handler _process_signal calls at step i of its for loop
HandlerAt(hs, kind, i) == hs[kind][i]

\* MainLoop._process_signal: call the next handler of the signal's kind
ProcessSignalCall ==
    /\ stack # <<>> /\ Top.f = "_process_signal"
    /\ Top.i <= Len(HandlersOf(handlers, Top.signal.kind))
    /\ LET h == HandlerAt(handlers, Top.signal.kind, Top.i)
       IN  /\ stack' = Append(SetTop(stack, [Top EXCEPT !.i = @ + 1]),
                              [f |-> "handler", callback |-> h.callback,
                               data |-> h.data, signal |-> Top.signal,
                               calls |-> 0])
           /\ last' = [type |-> "handler_called", callback |-> h.callback,
                       data |-> h.data, sig |-> Top.signal, nth |-> Top.i]
    /\ UNCHANGED <<inputVars, handlers, queues, active_queue, event_queues, lines, counter,
                   crashed, quitVars, workers, nextSig, regLog, dispatched, removed>>

\* _process_signal without the test for ExceptionSignal
RaisesAnyUnhandled(hs, kind) == kind \notin DOMAIN hs

\* MainLoop._process_signal: is the `elif` branch taken?
RaisesException(hs, kind) == kind \notin DOMAIN hs /\ kind = ExceptionSignal

\* MainLoop._raise_exception: the exception raised,
\* `raise signal.exception_info[0] from signal.exception_info[1]`
RaisedException(signal) ==
    IF "exception_info" \in DOMAIN signal
    THEN [exception |-> signal.exception_info[1], cause |-> signal.exception_info[2]]
    ELSE [exception |-> "AttributeError", cause |-> None]

\* the dispatch thread after an exception other than ExitMainLoop left every
\* frame of the loop (only ExitMainLoop is caught, by _mainloop)
Crashed == <<[f |-> "main", pc |-> "crashed"]>>

\* MainLoop._process_signal: no handler is registered for the ExceptionSignal,
\* _raise_exception; the exception leaves process_signals and its callers
ProcessSignalRaise ==
    /\ stack # <<>> /\ Top.f = "_process_signal"
    /\ RaisesException(handlers, Top.signal.kind)
    /\ crashed' = RaisedException(Top.signal)
    /\ stack' = Crashed
    /\ last' = [type |-> "exception_raised", sig |-> Top.signal,
                depth |-> CountFrames(stack, "process_signals")]
    /\ UNCHANGED <<inputVars, handlers, queues, active_queue, event_queues, lines,
                   counter, quitVars, workers, nextSig, regLog, dispatched, removed>>

\* MainLoop._process_signal: the for loop is over (or there was no handler)
ProcessSignalReturn ==
    /\ stack # <<>> /\ Top.f = "_process_signal"
    /\ Top.i > Len(HandlersOf(handlers, Top.signal.kind))
    /\ ~RaisesException(handlers, Top.signal.kind)
    /\ stack' = Return(stack)
    /\ last' = [type |-> "signal_processed", sig |-> Top.signal, called |-> Top.i - 1]
    /\ UNCHANGED <<inputVars, handlers, queues, active_queue, event_queues, lines, counter,
                   crashed, quitVars, workers, nextSig, regLog, dispatched, removed>>

\* a callback returns
HandlerReturn ==
    /\ InHandler
    /\ stack' = Return(stack)
    /\ last' = [type |-> "handler_returned"]
    /\ UNCHANGED <<inputVars, handlers, queues, active_queue, event_queues, lines, counter,
                   crashed, quitVars, workers, nextSig, regLog, dispatched, removed>>

\* a callback raises ExitMainLoop
HandlerRaiseExit ==
    /\ InHandler
    /\ stack' = Unwind(stack, "raise")
    /\ last' = [type |-> "exit_raised", by |-> "raise",
                levels |-> CountFrames(stack, "_mainloop")]
    /\ UNCHANGED <<inputVars, handlers, queues, active_queue, event_queues, lines, counter,
                   crashed, quitVars, workers, nextSig, regLog, dispatched, removed>>

\* a callback calls process_signals(return_after): _register_wait_on_signal
HandlerProcessSignals(ra) ==
    /\ CanCall
    /\ counter < MaxTickets
    /\ lines' = TakeTicket(lines, counter, ra)
    /\ counter' = counter + 1
    /\ stack' = Append(Called(stack), PSFrame(ra, counter, Len(dispatched)))
    /\ last' = [type |-> "process_signals_called", return_after |-> ra]
    /\ UNCHANGED <<inputVars, handlers, queues, active_queue, event_queues,
                   crashed, quitVars, workers, nextSig, regLog, dispatched, removed>>

\* a callback calls execute_new_loop(signal), up to
\* self._active_queue = EventQueue()
HandlerExecuteNewLoop(kind, src) ==
    /\ CanCall
    /\ nextSig <= MaxSignals
    /\ Len(queues) < MaxQueues
    /\ queues' = Append(queues, NewQueue)
    /\ active_queue' = Len(queues) + 1
    /\ stack' = Append(Called(stack),
                       [f |-> "execute_new_loop", pc |-> "append",
                        signal |-> Signal(nextSig, kind, src),
                        queue |-> Len(queues) + 1, closedBy |-> None,
                        depthBefore |-> Len(event_queues),
                        activeBefore |-> active_queue])
    /\ nextSig' = nextSig + 1
    /\ last' = [type |-> "execute_new_loop_called", access |-> Access("write", 90)]
    /\ UNCHANGED <<inputVars, handlers, event_queues, lines, counter,
                   crashed, quitVars, workers, regLog, dispatched, removed>>

\* MainLoop.execute_new_loop: with the lock, append the active queue
ENLAppend ==
    /\ stack # <<>> /\ Top.f = "execute_new_loop" /\ Top.pc = "append"
    /\ event_queues' = Append(event_queues, active_queue)
    /\ stack' = SetTop(stack, [Top EXCEPT !.pc = "enqueue"])
    /\ last' = [type |-> "queue_pushed"]
    /\ UNCHANGED <<inputVars, handlers, queues, active_queue, lines, counter,
                   crashed, quitVars, workers, nextSig, regLog, dispatched, removed>>

\* MainLoop.execute_new_loop: self.enqueue_signal(signal), then the call of
\* _mainloop
ENLEnqueue ==
    /\ stack # <<>> /\ Top.f = "execute_new_loop" /\ Top.pc = "enqueue"
    /\ LET q == EnqueueTarget(event_queues, queues, active_queue, Top.signal.source)
       IN  /\ queues' = QEnqueue(queues, q, Top.signal)
           /\ last' = [type |-> "new_loop_signal", sig |-> Top.signal,
                       target |-> q, queue |-> Top.queue]
    /\ stack' = Append(SetTop(stack, [Top EXCEPT !.pc = "mainloop"]), MainloopFrame)
    /\ UNCHANGED <<inputVars, handlers, active_queue, event_queues, lines, counter,
                   crashed, quitVars, workers, nextSig, regLog, dispatched, removed>>

\* MainLoop.execute_new_loop returns to the callback that called it
ENLReturn ==
    /\ stack # <<>> /\ Top.f = "execute_new_loop" /\ Top.pc = "return"
    /\ stack' = Return(stack)
    /\ last' = [type |-> "execute_new_loop_returned", frame |-> Top,
                depth |-> Len(stack)]
    /\ UNCHANGED <<inputVars, handlers, queues, active_queue, event_queues, lines, counter,
                   crashed, quitVars, workers, nextSig, regLog, dispatched, removed>>

\* a callback calls close_loop(): up to the call of process_signals()
HandlerCloseLoop ==
    /\ CanCall
    /\ stack' = Append(Append(Called(stack),
                              [f |-> "close_loop", pc |-> "process",
                               pending |-> Range(queues[active_queue].items)]),
                       PSFrame(None, NoTicket, 0))
    /\ last' = [type |-> "close_loop_called"]
    /\ UNCHANGED <<inputVars, handlers, queues, active_queue, event_queues, lines, counter,
                   crashed, quitVars, workers, nextSig, regLog, dispatched, removed>>

\* close_loop, under the lock: the new _event_queues
PopQueue(eqs) == SubSeq(eqs, 1, Len(eqs) - 1)

\* close_loop, under the lock: the new _active_queue (unchanged when the
\* lookup of the last element raises IndexError)
ActiveAfterPop(eqs, act) == IF eqs = <<>> THEN act ELSE eqs[Len(eqs)]

\* close_loop without `except IndexError: raise ExitMainLoop()`
CloseLoopRaisesIndexError(eqs) ==
    IF eqs = <<>> THEN "IndexError" ELSE "ExitMainLoop"

\* close_loop: the exception that leaves it, eqs being _event_queues after
\* the pop (IndexError is replaced by ExitMainLoop)
CloseLoopRaises(eqs) ==
    IF eqs = <<>> THEN "ExitMainLoop" ELSE "ExitMainLoop"

\* MainLoop.close_loop after process_signals() returned: with the lock, pop
\* the last queue and make the new last one active; raise ExitMainLoop
CloseLoopPop ==
    /\ stack # <<>> /\ Top.f = "close_loop" /\ Top.pc = "pop"
    /\ event_queues # <<>>
    /\ event_queues' = PopQueue(event_queues)
    /\ active_queue' = ActiveAfterPop(event_queues', active_queue)
    /\ removed' = removed \cup {event_queues[Len(event_queues)]}
    /\ IF CloseLoopRaises(event_queues') = "ExitMainLoop"
       THEN /\ stack' = Unwind(stack, "close_loop")
            /\ UNCHANGED crashed
       ELSE /\ stack' = Crashed
            /\ crashed' = [exception |-> CloseLoopRaises(event_queues'),
                           cause |-> None]
    /\ last' = [type |-> "exit_raised", by |-> "close_loop",
                levels |-> CountFrames(stack, "_mainloop"),
                pending |-> Top.pending,
                access |-> IF event_queues' = <<>> THEN Access("none", 112)
                           ELSE Access("write", 112)]
    /\ UNCHANGED <<inputVars, handlers, queues, lines, counter,
                   quitVars, workers, nextSig, regLog, dispatched>>

\* ------------------------------------------------ threads that enqueue
\* a thread other than the dispatch thread calls enqueue_signal(signal):
\* the loop over the queues, with the lock
WorkerScan(w, kind, src) ==
    /\ workers[w].pc = "idle"
    /\ stack # <<>> /\ stack[1].pc = "running"
    /\ nextSig <= MaxSignals
    /\ nextSig' = nextSig + 1
    /\ LET sig == Signal(nextSig, kind, src)
           q == ScanQueues(event_queues, queues, src, Len(event_queues))
       IN  IF q # NoQueue
           THEN /\ queues' = QEnqueue(queues, q, sig)
                /\ workers' = [workers EXCEPT ![w] = [pc |-> "idle"]]
                /\ last' = [type |-> "enqueue_signal", sig |-> sig, target |-> q]
           ELSE /\ workers' = [workers EXCEPT ![w] = [pc |-> "read", sig |-> sig]]
                /\ last' = [type |-> "worker_scanned"]
                /\ UNCHANGED queues
    /\ UNCHANGED <<inputVars, handlers, active_queue, event_queues, lines, counter,
                   stack, crashed, quitVars, regLog, dispatched, removed>>

\* enqueue_signal on a worker, the lock released: load self._active_queue
WorkerRead(w) ==
    /\ workers[w].pc = "read"
    /\ workers' = [workers EXCEPT ![w] = [pc |-> "put", sig |-> @.sig, q |-> active_queue]]
    /\ last' = [type |-> "worker_read", sig |-> workers[w].sig, target |-> active_queue,
                access |-> Access("read", 136)]
    /\ UNCHANGED <<inputVars, handlers, queues, active_queue, event_queues, lines, counter,
                   stack, crashed, quitVars, nextSig, regLog, dispatched, removed>>

\* enqueue_signal on a worker: enqueue(signal) on the queue it loaded
WorkerPut(w) ==
    /\ workers[w].pc = "put"
    /\ queues' = QEnqueue(queues, workers[w].q, workers[w].sig)
    /\ workers' = [workers EXCEPT ![w] = [pc |-> "idle"]]
    /\ last' = [type |-> "worker_put", sig |-> workers[w].sig, target |-> workers[w].q]
    /\ UNCHANGED <<inputVars, handlers, active_queue, event_queues, lines, counter,
                   stack, crashed, quitVars, nextSig, regLog, dispatched, removed>>

\* ------------------------------------------------------- specification
Next ==
    \/ /\ InMain /\ Len(regLog) < MaxHandlers
       /\ \E k \in Kinds : RegisterSignalHandler(k, Callbacks[Len(regLog) + 1],
                                                   DataOf[Len(regLog) + 1])
    \/ RegisterSignalSource(Registrable)
    \/ SetQuitCallback(QuitCallback)
    \/ \E k \in Kinds, src \in Sources : UserEnqueueSignal(k, src)
    \/ Run
    \/ RunQuit
    \/ MainloopIter
    \/ PSReturnEmpty
    \/ PSDequeue
    \/ PSCheck
    \/ ProcessSignalCall
    \/ ProcessSignalReturn
    \/ HandlerReturn
    \/ HandlerRaiseExit
    \/ \E k \in Kinds : HandlerProcessSignals(k)
    \/ \E k \in Kinds, src \in Sources : HandlerExecuteNewLoop(k, src)
    \/ ENLAppend
    \/ ENLEnqueue
    \/ ENLReturn
    \/ HandlerCloseLoop
    \/ CloseLoopPop
    \/ \E w \in Workers, k \in Kinds, src \in Sources : WorkerScan(w, k, src)
    \/ \E w \in Workers : WorkerRead(w)
    \/ \E w \in Workers : WorkerPut(w)

Spec == Init /\ [][Next]_vars

\* --------------------------------------------- handler dispatch alone
\* An application without modal loops: callbacks register further handlers,
\* enqueue signals, return or raise ExitMainLoop.
NextDispatch ==
    \/ /\ Len(regLog) < MaxRegistered
       /\ \E k \in Kinds : RegisterSignalHandler(k, Callbacks[Len(regLog) + 1],
                                                   DataOf[Len(regLog) + 1])
    \/ \E k \in Kinds : UserEnqueueSignal(k, "s2")
    \/ Run
    \/ RunQuit
    \/ MainloopIter
    \/ PSReturnEmpty
    \/ PSDequeue
    \/ PSCheck
    \/ ProcessSignalCall
    \/ ProcessSignalReturn
    \/ HandlerReturn
    \/ HandlerRaiseExit
    \/ \E w \in Workers, k \in Kinds : WorkerScan(w, k, "s2")
    \/ \E w \in Workers : WorkerRead(w)
    \/ \E w \in Workers : WorkerPut(w)

SpecDispatch == Init /\ [][NextDispatch]_vars

\* ------------------------------------------------- exception signals
\* An application without modal loops whose callbacks and threads enqueue
\* ExceptionSignal objects as well; handlers are registered for either kind
\* before run() or by a callback, and callbacks wait with process_signals.
ExcKinds == {"A", ExceptionSignal}

NextExc ==
    \/ /\ Len(regLog) < MaxHandlers
       /\ \E k \in ExcKinds : RegisterSignalHandler(k, Callbacks[Len(regLog) + 1],
                                                      DataOf[Len(regLog) + 1])
    \/ \E k \in ExcKinds : UserEnqueueSignal(k, "s2")
    \/ Run
    \/ RunQuit
    \/ MainloopIter
    \/ PSReturnEmpty
    \/ PSDequeue
    \/ PSCheck
    \/ ProcessSignalCall
    \/ ProcessSignalReturn
    \/ ProcessSignalRaise
    \/ HandlerReturn
    \/ HandlerRaiseExit
    \/ \E k \in ExcKinds : HandlerProcessSignals(k)
    \/ \E w \in Workers, k \in ExcKinds : WorkerScan(w, k, "s2")
    \/ \E w \in Workers : WorkerRead(w)
    \/ \E w \in Workers : WorkerPut(w)

SpecExc == Init /\ [][NextExc]_vars

\* ------------------------------------------- the TicketMachine alone
\* TicketMachine.take_ticket(line)
TicketTake(line) ==
    /\ counter < MaxTaken
    /\ lines' = TakeTicket(lines, counter, line)
    /\ counter' = counter + 1
    /\ last' = [type |-> "take_ticket", line |-> line, result |-> counter]
    /\ UNCHANGED <<inputVars, handlers, queues, active_queue, event_queues, stack, crashed, quitVars,
                   workers, nextSig, regLog, dispatched, removed>>

\* TicketMachine.mark_line_to_go(line)
TicketMark(line) ==
    /\ lines' = MarkLineToGo(lines, line)
    /\ last' = [type |-> "mark_line_to_go", line |-> line]
    /\ UNCHANGED <<inputVars, handlers, queues, active_queue, event_queues, counter, stack,
                   crashed, quitVars, workers, nextSig, regLog, dispatched, removed>>

\* TicketMachine.check_ticket(line, unique_id) by the holder of the ticket
TicketCheck(line, id) ==
    /\ line \in DOMAIN lines
    /\ id \in DOMAIN lines[line]
    /\ lines' = CheckTicketLines(lines, line, id)
    /\ last' = [type |-> "check_ticket", line |-> line, id |-> id,
                result |-> CheckTicketResult(lines, line, id)]
    /\ UNCHANGED <<inputVars, handlers, queues, active_queue, event_queues, counter, stack,
                   crashed, quitVars, workers, nextSig, regLog, dispatched, removed>>

NextTicket ==
    \/ \E line \in Kinds : TicketTake(line)
    \/ \E line \in Kinds : TicketMark(line)
    \/ \E line \in Kinds, id \in 0..(MaxTaken - 1) : TicketCheck(line, id)

SpecTicket == Init /\ [][NextTicket]_vars

\* ------------------------------------------------- InputThreadManager
TheLoop == "MainLoop"       \* what App.get_event_loop() returns
InputReceivedSignal == "InputReceivedSignal"
InputReadySignal == "InputReadySignal"
InputReceivedHandler == "_input_received_handler"

\* _input_received_handler serving self._input_stack[0]
OldestRequest(st) == st[1]

\* _input_received_handler: the request it serves, self._input_stack[-1]
ServedRequest(st) == st[Len(st)]

\* _check_input_thread_running with the flag inverted
ConcurrentCheckInverted(st, check) == Len(st) # 1 /\ ~check

\* _check_input_thread_running: does it raise KeyError?
ConcurrentCheckFails(st, check) == Len(st) # 1 /\ check

\* _check_input_thread_running: the sources listed in the error message,
\* one "Input handler: <source>" line for each
ErrorSources(st) == [i \in 1..Len(st) |-> SourceOf[st[i]]]

\* _start_user_input_async that does not look at _processing_input
StartsThreadIgnoringFlag(st, processing) == st # <<>>

\* _start_user_input_async: does it start the thread of the last request?
StartsThread(st, processing) == st # <<>> /\ ~processing

\* _start_user_input_async starting the thread of self._input_stack[0]
StartedOldest(st) == st[1]

\* _start_user_input_async: the request whose thread it initializes and
\* starts, self._input_stack[-1]
StartedRequest(st) == st[Len(st)]

\* _input_received_handler forwarding no data
InputReadyWithoutData(signal) == None

\* _input_received_handler: the data of the InputReadySignal, signal.data
InputReadyData(signal) == signal.data

\* InputRequest.thread is alive
Alive(t) == t.pc \in {"get_input", "read", "put"}

\* _find_running_thread_objects
RunningThreadObjects(st, th) == {r \in Range(st) : Alive(th[r])}

\* InputThreadManager.start_input_thread called by user code.  A KeyError it
\* raises is caught by the caller.
StartInputThread(r, check) ==
    /\ InUserCode
    /\ r \notin Range(asked)
    /\ asked' = Append(asked, r)
    /\ IF registered_loop # TheLoop
       THEN /\ handlers' = RegisterHandler(handlers, InputReceivedSignal,
                                           InputReceivedHandler, None)
            /\ regLog' = Append(regLog, [kind |-> InputReceivedSignal,
                                         callback |-> InputReceivedHandler,
                                         data |-> None])
       ELSE UNCHANGED <<handlers, regLog>>
    /\ registered_loop' = TheLoop
    /\ input_stack' = Append(input_stack, r)
    /\ IF ConcurrentCheckFails(input_stack', check)
       THEN /\ UNCHANGED <<processing_input, threads>>
            /\ last' = [type |-> "start_input_thread", request |-> r,
                        check |-> check, result |-> "KeyError",
                        message |-> ErrorSources(input_stack'), started |-> None]
       ELSE IF StartsThread(input_stack', processing_input)
       THEN /\ processing_input' = TRUE
            /\ threads' = [threads EXCEPT ![StartedRequest(input_stack')] =
                                              [pc |-> "get_input"]]
            /\ last' = [type |-> "start_input_thread", request |-> r,
                        check |-> check, result |-> "ok",
                        started |-> StartedRequest(input_stack')]
       ELSE /\ UNCHANGED <<processing_input, threads>>
            /\ last' = [type |-> "start_input_thread", request |-> r,
                        check |-> check, result |-> "ok", started |-> None]
    /\ stack' = AfterCall(stack)
    /\ UNCHANGED <<queues, active_queue, event_queues, lines, counter, crashed, quitVars,
                   workers, nextSig, dispatched, removed>>

\* InputRequest.run on the thread of request r: get_input() returns data, then
\* enqueue_signal(InputReceivedSignal(self, data)), the loop under the lock
InputThreadRun(r, data) ==
    /\ threads[r].pc = "get_input"
    /\ nextSig' = nextSig + 1
    /\ LET sig == [id |-> nextSig, kind |-> InputReceivedSignal, source |-> r,
                   data |-> data]
           q == ScanQueues(event_queues, queues, r, Len(event_queues))
       IN  IF q # NoQueue
           THEN /\ queues' = QEnqueue(queues, q, sig)
                /\ threads' = [threads EXCEPT ![r] = [pc |-> "done"]]
                /\ last' = [type |-> "enqueue_signal", sig |-> sig, target |-> q]
           ELSE /\ threads' = [threads EXCEPT ![r] = [pc |-> "read", sig |-> sig]]
                /\ last' = [type |-> "input_acquired", sig |-> sig]
                /\ UNCHANGED queues
    /\ UNCHANGED <<handlers, active_queue, event_queues, lines, counter, stack,
                   crashed, quitVars, workers, regLog, dispatched, removed, input_stack,
                   registered_loop, processing_input, asked>>

\* enqueue_signal on the thread of request r: load self._active_queue
InputThreadRead(r) ==
    /\ threads[r].pc = "read"
    /\ threads' = [threads EXCEPT ![r] = [pc |-> "put", sig |-> @.sig,
                                          q |-> active_queue]]
    /\ last' = [type |-> "worker_read", sig |-> threads[r].sig,
                target |-> active_queue, access |-> Access("read", 136)]
    /\ UNCHANGED <<handlers, queues, active_queue, event_queues, lines, counter,
                   stack, crashed, quitVars, workers, nextSig, regLog, dispatched, removed,
                   input_stack, registered_loop, processing_input, asked>>

\* enqueue_signal on the thread of request r: enqueue(signal); the thread ends
InputThreadPut(r) ==
    /\ threads[r].pc = "put"
    /\ queues' = QEnqueue(queues, threads[r].q, threads[r].sig)
    /\ threads' = [threads EXCEPT ![r] = [pc |-> "done"]]
    /\ last' = [type |-> "worker_put", sig |-> threads[r].sig,
                target |-> threads[r].q]
    /\ UNCHANGED <<handlers, active_queue, event_queues, lines, counter,
                   stack, crashed, quitVars, workers, nextSig, regLog, dispatched, removed,
                   input_stack, registered_loop, processing_input, asked>>

InInputReceivedHandler ==
    stack # <<>> /\ Top.f = "handler" /\ Top.callback = InputReceivedHandler

\* _input_received_handler: enqueue InputReadySignal(source of the last
\* request, signal.data)
InputReceivedEnqueue ==
    /\ InInputReceivedHandler
    /\ Top.calls = 0
    /\ input_stack # <<>>
    /\ LET sig == [id |-> nextSig, kind |-> InputReadySignal,
                   source |-> SourceOf[ServedRequest(input_stack)],
                   data |-> InputReadyData(Top.signal)]
           q == EnqueueTarget(event_queues, queues, active_queue, sig.source)
       IN  /\ queues' = QEnqueue(queues, q, sig)
           /\ last' = [type |-> "input_ready", sig |-> sig, target |-> q,
                       received |-> Top.signal]
    /\ nextSig' = nextSig + 1
    /\ stack' = Called(stack)
    /\ UNCHANGED <<inputVars, handlers, active_queue, event_queues, lines,
                   counter, crashed, quitVars, workers, regLog, dispatched, removed>>

\* _input_received_handler that leaves _processing_input as it is
ProcessingKept(processing) == processing

\* _input_received_handler: `self._processing_input = False`
ProcessingAfterServe(processing) == FALSE

\* _input_received_handler: the threads still alive are joined; pop the last
\* request, clear _processing_input, _start_user_input_async, return
InputReceivedFinish ==
    /\ InInputReceivedHandler
    /\ Top.calls = 1
    /\ RunningThreadObjects(input_stack, threads) = {}
    /\ input_stack' = SubSeq(input_stack, 1, Len(input_stack) - 1)
    /\ IF StartsThread(input_stack', ProcessingAfterServe(processing_input))
       THEN /\ processing_input' = TRUE
            /\ threads' = [threads EXCEPT ![StartedRequest(input_stack')] =
                                              [pc |-> "get_input"]]
            /\ last' = [type |-> "input_handled",
                        popped |-> ServedRequest(input_stack),
                        received |-> Top.signal,
                        started |-> StartedRequest(input_stack')]
       ELSE /\ processing_input' = ProcessingAfterServe(processing_input)
            /\ UNCHANGED threads
            /\ last' = [type |-> "input_handled",
                        popped |-> ServedRequest(input_stack),
                        received |-> Top.signal, started |-> None]
    /\ stack' = Return(stack)
    /\ UNCHANGED <<handlers, queues, active_queue, event_queues, lines, counter,
                   crashed, quitVars, workers, nextSig, regLog, dispatched, removed,
                   registered_loop, asked>>

\* An application that asks for input before run() and from the callback it
\* registers for InputReadySignal; it uses no modal loop.
NextInput ==
    \/ /\ InMain /\ InputReadySignal \notin DOMAIN handlers
       /\ RegisterSignalHandler(InputReadySignal, Callbacks[1], DataOf[1])
    \/ \E r \in Requests, check \in BOOLEAN : StartInputThread(r, check)
    \/ Run
    \/ MainloopIter
    \/ PSReturnEmpty
    \/ PSDequeue
    \/ PSCheck
    \/ ProcessSignalCall
    \/ ProcessSignalReturn
    \/ HandlerReturn
    \/ InputReceivedEnqueue
    \/ InputReceivedFinish
    \/ \E r \in Requests, d \in InputData : InputThreadRun(r, d)
    \/ \E r \in Requests : InputThreadRead(r)
    \/ \E r \in Requests : InputThreadPut(r)

SpecInput == Init /\ [][NextInput]_vars

\* the steps of the dispatch thread once the application has set itself up
DispatchStep ==
    \/ Run
    \/ MainloopIter
    \/ PSReturnEmpty
    \/ PSDequeue
    \/ PSCheck
    \/ ProcessSignalCall
    \/ ProcessSignalReturn
    \/ HandlerReturn
    \/ InputReceivedEnqueue
    \/ InputReceivedFinish

\* the steps of the input thread of request r
InputThreadStep(r) ==
    \/ \E d \in InputData : InputThreadRun(r, d)
    \/ InputThreadRead(r)
    \/ InputThreadPut(r)

\* every get_input call returns and every started thread runs on; the
\* application calls run() and the dispatch thread keeps running
SpecInputLive ==
    /\ SpecInput
    /\ WF_vars(DispatchStep)
    /\ \A r \in Requests : WF_vars(InputThreadStep(r))

\* ================================================================ claims
OnStack(q) == q \in Range(event_queues)

\* the levels of the queue stack (1 = outermost) that recognize a source
Recognizers(src) ==
    {i \in 1..Len(event_queues) : src \in queues[event_queues[i]].sources}

\* q holds sig as its newest signal
AppendedTo(q, sig) ==
    /\ queues[q].items # <<>>
    /\ queues[q].items[Len(queues[q].items)] = sig

\* the run() call is still inside its _mainloop
OutermostRunning ==
    /\ Len(stack) >= 3
    /\ stack[2].f = "run"
    /\ stack[2].pc = "mainloop"

\* C1: enqueue_signal appends the signal to the innermost level whose
\* recognized sources contain signal.source, never to a shallower one that
\* recognizes it too, and to the active queue when no level recognizes it
\* (on a worker thread: the queue that is active when it is loaded).
C1_EnqueueRouting ==
    /\ last.type \in {"enqueue_signal", "new_loop_signal"} =>
          /\ AppendedTo(last.target, last.sig)
          /\ IF Recognizers(last.sig.source) # {}
             THEN \E i \in Recognizers(last.sig.source) :
                     /\ last.target = event_queues[i]
                     /\ \A j \in Recognizers(last.sig.source) : j <= i
             ELSE last.target = active_queue
    /\ last.type = "worker_scanned" =>
          \A w \in Workers : workers[w].pc = "read" =>
              Recognizers(workers[w].sig.source) = {}
    /\ last.type = "worker_read" => last.target = active_queue
    /\ last.type = "worker_put" => AppendedTo(last.target, last.sig)

\* C1 witness: two levels recognize the source and the signal went to the
\* inner one
C1_Witness ==
    /\ last.type = "enqueue_signal"
    /\ Cardinality(Recognizers(last.sig.source)) >= 2
    /\ last.target = event_queues[Len(event_queues)]

\* C2: no signal is placed into, or left in, a queue that close_loop has
\* removed from the stack while the outermost level keeps running, and no
\* signal is dequeued twice.
C2_NoSignalLost ==
    /\ OutermostRunning => \A q \in removed : queues[q].items = <<>>
    /\ \A i, j \in 1..Len(dispatched) :
          dispatched[i].id = dispatched[j].id => i = j

\* C5: process_signals(return_after=B) returns only after a signal of kind
\* B was dequeued after the call started; dequeued signals of other kinds
\* and an empty active queue never make it return.
C5_WaitForKind ==
    (last.type = "process_signals_returned" /\ last.return_after # None) =>
        \E i \in (last.start + 1)..Len(dispatched) :
            dispatched[i].kind = last.return_after

\* C5 witness: the call returned after a signal of another kind and then
\* one of the awaited kind were dequeued
C5_Witness ==
    /\ last.type = "process_signals_returned"
    /\ last.return_after = "B"
    /\ Len(dispatched) >= last.start + 2
    /\ dispatched[last.start + 1].kind = "A"
    /\ dispatched[Len(dispatched)].kind = "B"

\* C6: execute_new_loop whose level was ended by close_loop returns with the
\* nested queue drained and off the stack, the stack as deep as before the
\* call and the caller's queue active again.
C6_NestedLoopRoundTrip ==
    (last.type = "execute_new_loop_returned" /\ last.frame.closedBy = "close_loop") =>
        /\ queues[last.frame.queue].items = <<>>
        /\ ~OnStack(last.frame.queue)
        /\ Len(event_queues) = last.frame.depthBefore
        /\ active_queue = last.frame.activeBefore

\* C7: execute_new_loop(signal) puts `signal` into the queue it has just
\* pushed, whatever the outer levels recognize, as that queue's first signal.
C7_NewLoopSignalInNewQueue ==
    last.type = "new_loop_signal" =>
        /\ last.target = last.queue
        /\ queues[last.queue].items = <<last.sig>>

\* the frames of s above its innermost _mainloop frame, that frame included
RECURSIVE InnermostLevel(_)
InnermostLevel(s) ==
    IF s = <<>> THEN 0
    ELSE IF s[Len(s)].f = "_mainloop" THEN Len(s)
    ELSE InnermostLevel(Below(s))

\* C8: ExitMainLoop raised by a handler (or by close_loop) ends exactly the
\* innermost running _mainloop: every frame above it is left (process_signals
\* and _process_signal propagate it), its caller resumes after the call as on
\* a normal return, and every frame below, the enclosing levels included, is
\* as it was.
C8_ExitEndsOneLevel ==
    [][last'.type = "exit_raised" =>
          LET j == InnermostLevel(stack)
          IN  /\ j >= 2
              /\ Len(stack') = j - 1
              /\ \A i \in 1..(j - 2) : stack'[i] = stack[i]
              /\ stack'[j - 1].f = stack[j - 1].f
              /\ stack'[j - 1].pc = IF stack[j - 1].f = "run" THEN "quit" ELSE "return"
              /\ CountFrames(stack', "_mainloop") = CountFrames(stack, "_mainloop") - 1
              /\ CountFrames(stack', "_mainloop") = last'.levels - 1]_vars

\* C8 witness: a handler raised ExitMainLoop under two running levels and
\* through a process_signals call of its own level; the outer level remains
C8_Witness ==
    /\ last.type = "exit_raised"
    /\ last.by = "raise"
    /\ last.levels >= 2
    /\ CountFrames(stack, "_mainloop") = last.levels - 1
    /\ Top.f = "execute_new_loop"

\* the registrations for a kind, in the order of the calls
RegisteredFor(kind) == SelectSeq(regLog, LAMBDA e : e.kind = kind)

\* C3: each handler called for a signal is the next one, in registration
\* order, of those registered for the signal's kind, and gets the signal and
\* its own data; _process_signal returns once all of them have been called.
C3_HandlerDispatch ==
    /\ \A p \in 2..Len(stack) :
          stack[p].f = "handler" =>
              LET ps == stack[p - 1]
                  n == ps.i - 1
                  reg == RegisteredFor(ps.signal.kind)
              IN  /\ ps.f = "_process_signal"
                  /\ stack[p].signal = ps.signal
                  /\ n \in 1..Len(reg)
                  /\ stack[p].callback = reg[n].callback
                  /\ stack[p].data = reg[n].data
    /\ last.type = "signal_processed" =>
          last.called = Len(RegisteredFor(last.sig.kind))

\* C3 witness: the second handler of a kind runs, after the first, while a
\* handler of the other kind is registered too
C3_Witness ==
    /\ InHandler
    /\ stack[Len(stack) - 1].i = 3
    /\ Top.callback # RegisteredFor(Top.signal.kind)[1].callback
    /\ \E k \in Kinds : k # Top.signal.kind /\ RegisteredFor(k) # <<>>

\* the tickets of a ticket machine state, as <<line, id>> pairs
Tickets(ls) == UNION {{<<l, id>> : id \in DOMAIN ls[l]} : l \in DOMAIN ls}
Released(ls, t) == ls[t[1]][t[2]]

\* C4: ticket law.  take_ticket(L) adds a fresh unreleased ticket to L and
\* touches no other; mark_line_to_go(L) releases exactly the tickets then in
\* L; check_ticket of a released ticket returns True and removes it, of an
\* unreleased one returns a false value and changes nothing.
C4_TicketLaw ==
    [][/\ last'.type = "take_ticket" =>
            LET t == <<last'.line, last'.result>>
            IN  /\ t \notin Tickets(lines)
                /\ Tickets(lines') = Tickets(lines) \cup {t}
                /\ ~Released(lines', t)
                /\ \A u \in Tickets(lines) : Released(lines', u) = Released(lines, u)
       /\ last'.type = "mark_line_to_go" =>
            /\ Tickets(lines') = Tickets(lines)
            /\ \A u \in Tickets(lines) :
                  Released(lines', u) = (Released(lines, u) \/ u[1] = last'.line)
       /\ last'.type = "check_ticket" =>
            LET t == <<last'.line, last'.id>>
            IN  IF Released(lines, t)
                THEN /\ Truthy(last'.result)
                     /\ Tickets(lines') = Tickets(lines) \ {t}
                     /\ \A u \in Tickets(lines') : Released(lines', u) = Released(lines, u)
                ELSE /\ ~Truthy(last'.result)
                     /\ lines' = lines
      ]_vars

\* C4 witness: with a released and an unreleased ticket in the same line,
\* the released one has just been consumed
C4_Witness ==
    /\ last.type = "check_ticket"
    /\ Truthy(last.result)
    /\ \E u \in Tickets(lines) : u[1] = last.line /\ ~Released(lines, u)

\* the requests on the input stack
Pending == Range(input_stack)

\* the pending request start_input_thread was called for last
LastAsked(pending) ==
    asked[CHOOSE i \in 1..Len(asked) :
             /\ asked[i] \in pending
             /\ \A j \in 1..Len(asked) : asked[j] \in pending => j <= i]

\* C9 as stated: the input-ready signal goes to the source of the request
\* whose worker acquired the data, that request is removed, and the worker of
\* the deferred request is started next.
C9_ServedInOrderOfCompletion ==
    /\ last.type = "input_ready" =>
          last.sig.source = SourceOf[last.received.source]
    /\ last.type = "input_handled" =>
          /\ last.popped = last.received.source
          /\ input_stack # <<>> => last.started # last.popped

\* C9 amended: a request made with concurrent_check=False while another is
\* pending is accepted and no worker is started for it; when the running
\* worker completes, the input-ready signal carries its data to the source of
\* the pending request asked last, that request is removed from the input
\* stack, and a worker is started for the request asked last among the rest.
C9_LastAskedWins ==
    /\ (last.type = "start_input_thread" /\ ~last.check
            /\ Pending \ {last.request} # {}) =>
          /\ last.result = "ok"
          /\ last.request \in Pending
          /\ threads[last.request].pc = "none"
    /\ last.type = "input_ready" =>
          /\ last.sig.source = SourceOf[LastAsked(Pending)]
          /\ last.sig.data = last.received.data
    /\ last.type = "input_handled" =>
          /\ last.popped = LastAsked(Pending \cup {last.popped})
          /\ last.popped \notin Pending
          /\ IF Pending = {}
             THEN ~processing_input
             ELSE /\ processing_input
                  /\ threads[LastAsked(Pending)].pc = "get_input"
                  /\ RunningThreadObjects(input_stack, threads) = {LastAsked(Pending)}

\* C9 witness: R1's worker completed with R2 deferred; R2 was removed and a
\* worker is running for R1 again
C9_Witness ==
    /\ last.type = "input_handled"
    /\ last.received.source = "R1"
    /\ last.popped = "R2"
    /\ input_stack = <<"R1">>
    /\ threads["R1"].pc = "get_input"

\* C10: start_input_thread(R2, concurrent_check=True) while a request is
\* pending raises KeyError listing the sources of the pending requests and of
\* R2; no worker is started for R2, and when R1 alone was pending it is still
\* the only request with a worker.
C10_StrictCheck ==
    (last.type = "start_input_thread" /\ last.check
         /\ Pending \ {last.request} # {}) =>
        /\ last.result = "KeyError"
        /\ Range(last.message) = {SourceOf[r] : r \in Pending \cup {last.request}}
        /\ last.message[Len(last.message)] = SourceOf[last.request]
        /\ threads[last.request].pc = "none"
        /\ Cardinality(RunningThreadObjects(input_stack, threads)) <= 1
        /\ Cardinality(Pending \ {last.request}) = 1 =>
              /\ {r \in Pending : threads[r].pc # "none"} = Pending \ {last.request}
              /\ processing_input

\* C10 witness: R2 was refused while R1's worker is waiting for input
C10_Witness ==
    /\ last.type = "start_input_thread"
    /\ last.result = "KeyError"
    /\ last.request = "R2"
    /\ last.message = <<"s1", "s2">>
    /\ threads["R1"].pc = "get_input"
    /\ threads["R2"].pc = "none"

\* the requests whose worker thread is running
Running == {r \in Requests : Alive(threads[r])}

C12_AtMostOneWorker == Cardinality(Running) <= 1

\* C12 witness: the handler has served one of three pending requests and
\* started the next thread while two requests are still pending
C12_Witness ==
    /\ last.type = "input_handled"
    /\ last.started # None
    /\ Len(input_stack) = 2
    /\ Cardinality(Running) = 1

\* C13 as stated: an entry of the input stack whose worker is running is the
\* last entry.
C13_WorkerOnlyAtTop ==
    \A i \in 1..Len(input_stack) :
        Alive(threads[input_stack[i]]) => i = Len(input_stack)

\* C13 amended: a worker is only ever started for the entry that is last on
\* the input stack at that moment; the entries pushed after the one whose
\* worker is running have never had a worker.
C13_StartedAtTop ==
    /\ (last.type \in {"start_input_thread", "input_handled"}
           /\ last.started # None) =>
          /\ last.started = input_stack[Len(input_stack)]
          /\ threads[last.started].pc = "get_input"
    /\ \A i, j \in 1..Len(input_stack) :
          (i < j /\ Alive(threads[input_stack[i]])) =>
              threads[input_stack[j]].pc = "none"

\* C13 witness: a request was accepted without the check while the worker of
\* an earlier one is running; the running worker is not the last entry
C13_Witness ==
    /\ last.type = "start_input_thread"
    /\ last.result = "ok"
    /\ ~last.check
    /\ Len(input_stack) = 2
    /\ Alive(threads[input_stack[1]])
    /\ threads[input_stack[2]].pc = "none"

\* C14: run() returns only from the state its _mainloop leaves when that
\* outermost _mainloop itself has caught ExitMainLoop; the quit callback, when
\* set, is called once, in that return and with no _mainloop running; an
\* ExitMainLoop that ends a nested level leaves run() inside its _mainloop.
C14_RunReturnsAfterOutermostExit ==
    /\ [](/\ quit_calls <= 1
          /\ quit_calls = 1 => (quit_callback # None /\ stack = <<[f |-> "main", pc |-> "done"]>>)
          /\ (stack # <<>> /\ stack[1].pc = "done") =>
                quit_calls = (IF quit_callback # None THEN 1 ELSE 0))
    /\ [][/\ last'.type = "run_returned" =>
              /\ Len(stack) = 2 /\ Top.f = "run" /\ Top.pc = "quit"
              /\ last'.levels = 0
              /\ stack' = <<[f |-> "main", pc |-> "done"]>>
          /\ quit_calls' # quit_calls => last'.type = "run_returned"
          /\ (OutermostRunning /\ ~OutermostRunning') =>
              /\ last'.type = "exit_raised"
              /\ last'.levels = 1
              /\ InnermostLevel(stack) = 3
              /\ stack' = <<stack[1], [f |-> "run", pc |-> "quit"]>>
          /\ (last'.type = "exit_raised" /\ last'.levels >= 2) =>
              OutermostRunning'
         ]_vars

\* C14 witness: run() has returned and called the quit callback after a
\* nested level had been opened and ended
C14_Witness ==
    /\ last.type = "run_returned"
    /\ quit_calls = 1
    /\ Len(queues) >= 2
    /\ stack = <<[f |-> "main", pc |-> "done"]>>

\* C15: an ExceptionSignal dispatched while no handler is registered for
\* ExceptionSignal makes _process_signal raise the carried exception, which
\* leaves process_signals on the dispatch thread; with a handler registered
\* the handlers are called and nothing is raised; a signal of another kind
\* without handler is dropped and nothing is raised.
C15_ExceptionSignals ==
    /\ [](/\ last.type = "exception_raised" =>
                /\ last.sig.kind = ExceptionSignal
                /\ RegisteredFor(ExceptionSignal) = <<>>
                /\ crashed = [exception |-> last.sig.exception_info[1],
                              cause |-> last.sig.exception_info[2]]
                /\ CountFrames(stack, "process_signals") = 0
                /\ dispatched[Len(dispatched)] = last.sig
          /\ last.type = "signal_processed" =>
                /\ crashed = NoException
                /\ last.called = Len(RegisteredFor(last.sig.kind))
                /\ last.sig.kind = ExceptionSignal => last.called >= 1
          /\ \A p \in 1..Len(stack) :
                (stack[p].f = "handler" /\ stack[p].signal.kind = ExceptionSignal) =>
                    crashed = NoException)
    /\ [][crashed' # crashed => last'.type = "exception_raised"]_vars

\* C15 witness: an ExceptionSignal without handler was dequeued by the
\* process_signals call of a callback and its exception left both
\* process_signals calls
C15_Witness ==
    /\ last.type = "exception_raised"
    /\ last.depth = 2
    /\ crashed = [exception |-> "ValueError", cause |-> "the ValueError instance"]
    /\ stack = Crashed

\* C15 witness of the other cases: a handler of ExceptionSignal has been
\* called for the signal and nothing was raised
C15_WitnessHandled ==
    /\ last.type = "signal_processed"
    /\ last.sig.kind = ExceptionSignal
    /\ last.called = 1
    /\ crashed = NoException

\* the tickets of line K
TicketsOf(ls, K) == {t \in Tickets(ls) : t[1] = K}

\* C16: dequeuing a signal of kind K releases every ticket then in line K,
\* and only those, before the first handler of the signal is called: when
\* that handler is called no ticket of line K is unreleased.  A ticket taken
\* by a callback is unreleased, and the process_signals(return_after=K) call
\* of a callback that handles a K signal returns after another K signal,
\* dequeued after the call, not by the signal being handled.
C16_ReleaseBeforeHandlers ==
    /\ [](/\ (last.type = "handler_called" /\ last.nth = 1) =>
                \A t \in TicketsOf(lines, last.sig.kind) : Released(lines, t)
          /\ (last.type = "process_signals_called" /\ last.return_after # None) =>
                /\ <<Top.return_after, Top.unique_id>> \in Tickets(lines)
                /\ ~Released(lines, <<Top.return_after, Top.unique_id>>)
          /\ (last.type = "process_signals_returned" /\ last.return_after # None
                 /\ Top.f = "handler") =>
                \E i \in (last.start + 1)..Len(dispatched) :
                    /\ dispatched[i].kind = last.return_after
                    /\ dispatched[i].id # Top.signal.id
                    /\ \E j \in 1..last.start : dispatched[j] = Top.signal)
    /\ [][last'.type = "dequeue" =>
             /\ Tickets(lines') = Tickets(lines)
             /\ \A t \in Tickets(lines) :
                   Released(lines', t) = (Released(lines, t) \/ t[1] = last'.sig.kind)
             /\ Top'.f = "_process_signal" /\ Top'.i = 1 /\ Top'.signal = last'.sig
         ]_vars

\* C16 witness: the callback handling a B signal waited for B; its wait was
\* ended by a second B signal, whose handler was called with the ticket
\* already released
C16_Witness ==
    /\ last.type = "process_signals_returned"
    /\ last.return_after = "B"
    /\ Top.f = "handler"
    /\ Top.signal.kind = "B"
    /\ dispatched[last.start].id = Top.signal.id
    /\ dispatched[last.start + 1].kind = "B"

\* a signal of kind K was dequeued after the process_signals call of frame fr
\* began
DequeuedSince(fr) ==
    \E i \in (fr.start + 1)..Len(dispatched) : dispatched[i].kind = fr.return_after

\* C17: the ticket of every process_signals(return_after=K) call in progress,
\* at every depth of the call stack, is released exactly when a K signal has
\* been dequeued since the call began, by that call or by a deeper one; when
\* control is back in the call, _check_if_signal_processed makes it return
\* exactly when its ticket is released, without a further K signal.
C17_WaitsSurviveReentrantDispatch ==
    /\ [](\A p \in 1..Len(stack) :
             (stack[p].f = "process_signals" /\ stack[p].return_after # None) =>
                 LET t == <<stack[p].return_after, stack[p].unique_id>>
                 IN  /\ t \in Tickets(lines)
                     /\ Released(lines, t) = DequeuedSince(stack[p]))
    /\ [][(/\ stack # <<>> /\ Top.f = "process_signals" /\ Top.pc = "check"
           /\ Top.return_after # None
           /\ last'.type \in {"checked", "process_signals_returned"}) =>
             /\ (last'.type = "process_signals_returned") = DequeuedSince(Top)
             /\ dispatched' = dispatched
         ]_vars

\* C17 witness: two nested waits for B were both ended by the only B signal
\* dequeued, which the inner call dequeued; the outer call has just returned
C17_Witness ==
    /\ last.type = "process_signals_returned"
    /\ last.return_after = "B"
    /\ counter = 2
    /\ Tickets(lines) = {}
    /\ Cardinality({i \in 1..Len(dispatched) : dispatched[i].kind = "B"}) = 1
    /\ last.start + 2 <= Len(dispatched)
    /\ dispatched[last.start + 1].kind = "A"

\* C18: while the loop runs the queue stack is not empty and the active queue
\* is its last element, in every state another thread can observe.
C18_QueueStackInvariant ==
    OutermostRunning =>
        /\ event_queues # <<>>
        /\ active_queue = event_queues[Len(event_queues)]

\* C19: close_loop() called with one queue on the stack dispatches the
\* signals that were pending, pops the last queue and raises ExitMainLoop,
\* never IndexError; the only _mainloop running, that of run(), catches it
\* and run() is left to call the quit callback and return.
C19_CloseOutermostLoop ==
    /\ [](/\ crashed.exception # "IndexError"
          /\ (last.type = "exit_raised" /\ event_queues = <<>>) => ENABLED RunQuit)
    /\ [][(last'.type = "exit_raised" /\ last'.by = "close_loop"
              /\ Len(event_queues) = 1) =>
             /\ event_queues' = <<>>
             /\ crashed' = NoException
             /\ last'.levels = 1
             /\ \A sig \in last'.pending : \E i \in 1..Len(dispatched) : dispatched[i] = sig
             /\ stack' = <<[f |-> "main", pc |-> "running"], [f |-> "run", pc |-> "quit"]>>
         ]_vars

\* C19 witness: close_loop ended the outermost level after it had dispatched
\* a signal that was pending when it was called
C19_Witness ==
    /\ last.type = "exit_raised"
    /\ last.by = "close_loop"
    /\ last.pending # {}
    /\ event_queues = <<>>
    /\ stack = <<[f |-> "main", pc |-> "running"], [f |-> "run", pc |-> "quit"]>>

\* the input-ready signals enqueued so far, oldest first: those dequeued and
\* those still in a queue (SpecInput has the one queue)
ReadySignals ==
    SelectSeq(dispatched \o queues[1].items, LAMBDA sig : sig.kind = InputReadySignal)

\* number of input-ready signals enqueued for the source of request r
ReadyCount(r) ==
    Cardinality({i \in 1..Len(ReadySignals) : ReadySignals[i].source = SourceOf[r]})

\* C20: under fairness every request on the input stack is eventually
\* removed from it with exactly one input-ready signal enqueued for its
\* source; no request gets a second one, and while a request has entries
\* above it on the stack (the later requests) it has not been served.
C20_EveryRequestServed ==
    /\ [](/\ \A r \in Requests : ReadyCount(r) <= 1
          /\ \A i \in 1..Len(input_stack) :
                i < Len(input_stack) => ReadyCount(input_stack[i]) = 0
          /\ \A r \in Range(asked) :
                r \notin Pending => ReadyCount(r) = 1)
    /\ \A r \in Requests :
          (r \in Pending) ~> (r \notin Pending /\ ReadyCount(r) = 1)

\* C20 witness: R1 was asked, then R2 without the check; both have been
\* served, R2 before R1
C20_Witness ==
    /\ asked = <<"R1", "R2">>
    /\ input_stack = <<>>
    /\ Len(ReadySignals) = 2
    /\ ReadySignals[1].source = "s2"
    /\ ReadySignals[2].source = "s1"

\* C21: every write of _active_queue by execute_new_loop and close_loop and
\* every read of it by enqueue_signal is made with self._lock held.
C21_LockingDiscipline ==
    ("access" \in DOMAIN last /\ last.access.op # "none") => last.access.locked

\* the execute_new_loop frames of s whose _mainloop is running
RunningNewLoops(s) ==
    {p \in 1..Len(s) : s[p].f = "execute_new_loop" /\ s[p].pc = "mainloop"}

\* the queue created for the innermost running level: the one run() found
\* active, or the one the innermost execute_new_loop call created
InnermostQueue(s) ==
    IF RunningNewLoops(s) = {} THEN 1
    ELSE s[CHOOSE p \in RunningNewLoops(s) : \A o \in RunningNewLoops(s) : o <= p].queue

\* C22: whenever process_signals is about to dequeue a signal, the queue
\* stack holds as many queues as there are levels running (run() and the
\* execute_new_loop calls that have not returned) and the active queue is the
\* queue created for the innermost running level.
C22_StackDiscipline ==
    (/\ stack # <<>> /\ Top.f = "process_signals" /\ Top.pc = "loop"
     /\ ~QEmpty(queues, active_queue)) =>
        /\ Len(event_queues) = CountFrames(stack, "_mainloop")
        /\ CountFrames(stack, "_mainloop") = 1 + Cardinality(RunningNewLoops(stack))
        /\ active_queue = InnermostQueue(stack)

\* C23: a start_input_thread call that raises KeyError leaves the input
\* stack and the processing flag as they were; the rejected request is not on
\* the stack.
C23_RejectedLeavesNoTrace ==
    [][(last'.type = "start_input_thread" /\ last'.result = "KeyError") =>
          /\ input_stack' = input_stack
          /\ processing_input' = processing_input
          /\ last'.request \notin Range(input_stack')
      ]_vars

\* the tickets held by the process_signals(return_after) calls in progress
TicketsInProgress(s) ==
    {<<s[p].return_after, s[p].unique_id>> :
        p \in {o \in 1..Len(s) : s[o].f = "process_signals" /\ s[o].return_after # None}}

\* C24: while the loop runs, the tickets in the ticket lines are those of the
\* process_signals(return_after) calls in progress: a call that has ended,
\* by a return or by an exception that unwound it, has left no ticket.
C24_NoTicketOutlivesItsWaiter ==
    OutermostRunning => Tickets(lines) = TicketsInProgress(stack)

====
